---- MODULE Spec2Model ----
(***************************************************************************)
(* SROTT port sniffer: PortSniffer.scan_ports with its worker pool,        *)
(* PortSniffer.check_port, PortSniffer.get_process_info, and the two       *)
(* callers that start scans (the CLI with its interactive 'refresh', and   *)
(* the web run_scan): specification Spec.  PortSniffer.get_process_info    *)
(* over arbitrary connection tables: specification CorrSpec.  The three    *)
(* ProcessManager actions over the OS process table: LifeSpec.             *)
(***************************************************************************)
EXTENDS Integers, Sequences, FiniteSets, TLC

(* ---------------------------- bounds ----------------------------------- *)
\* longest port range that is scanned
MaxLen == 3
\* largest --workers value tried on the CLI path
MaxWorkers == 2
\* scan_ports invocations per run (the first scan and the rescans)
MaxScans == 2
\* check_port calls per run, over all its scans
MaxProbes == 6
\* socket() failures (descriptor exhaustion) the OS injects per run
MaxFaults == 1
\* entries of the connection table psutil.net_connections() returns
MaxConns == 2
\* ProcessManager calls per run
MaxCalls == 2
\* POST /api/scan requests per run
MaxRequests == 3

(* ------------------------ program constants ---------------------------- *)
\* largest TCP port number; connect_ex raises OverflowError beyond it
MaxPort == 65535
\* default of PortSniffer.__init__'s max_workers, used by the web path
DefaultMaxWorkers == 100

(* ------------------------------ inputs --------------------------------- *)
\* the ranges a caller may pass: the valid ranges 1-1 .. 1-MaxLen, the
\* boundary ranges of the data model (1-1 above, 65535-65535), and the
\* invalid ones: start 0, end above 65535, and the reversed range 5-2
Ranges ==
    {<<1, n>> : n \in 1..MaxLen}
        \cup {<<MaxPort, MaxPort>>, <<0, 1>>, <<MaxPort, MaxPort + 1>>, <<5, 2>>}
\* the elements of a list
Elems(q) == {q[i] : i \in 1..Len(q)}
\* min(ports) and max(ports) of main's list form
Min(q) == CHOOSE x \in Elems(q) : \A y \in Elems(q) : x <= y
Max(q) == CHOOSE x \in Elems(q) : \A y \in Elems(q) : x >= y
\* comma-separated lists given to -p: 1,3 names two ports with a gap
PortLists == {<<1, 3>>}
\* what the caller asks for: a range (-p a-b, start_port/end_port of the web
\* request) or, on the CLI, a list (-p a,b)
PortArgs ==
    [kind : {"range"}, ports : Ranges] \cup [kind : {"list"}, ports : PortLists]
\* start_port and end_port as main derives them (lines 288-295)
ParsePorts(arg) ==
    IF arg.kind = "list" THEN <<Min(arg.ports), Max(arg.ports)>>
    ELSE <<arg.ports[1], arg.ports[2]>>
\* the ports the caller named
Requested(arg) ==
    IF arg.kind = "list" THEN Elems(arg.ports)
    ELSE arg.ports[1]..arg.ports[2]
\* -w/--workers values: zero is the misconfigured one
WorkerChoices == 0..MaxWorkers
\* -t/--timeout values (in units of the default timeout): negative, zero, positive
TimeoutChoices == {-1, 0, 1}

\* the PortRange invariant of the data model
ValidRange(s, e) == 1 <= s /\ s <= e /\ e <= MaxPort
\* the ScanConfig invariant of the data model
ValidConfig(t, w) == t > 0 /\ w >= 1

(* -------------------------- process correlation ------------------------ *)
None == [none |-> TRUE]
\* an exception leaving a function (no path of get_process_info produces it)
Raises == [raises |-> TRUE]
\* psutil.net_connections() itself failing (AccessDenied without privileges)
Unreadable == <<[unreadable |-> TRUE]>>
\* conn.pid of an entry whose owner the caller may not see (Python's None)
NoPid == -1
\* os.getpid(): psutil.Process(None) is the calling process
OwnPid == 999

\* psutil.Process(pid) and the attribute reads of lines 57-64, by the state
\* of process pid in the process table
ProcessRecord(procs, pid) ==
    [pid |-> pid, name |-> procs[pid].name, user |-> procs[pid].user,
     status |-> procs[pid].status]

DegradedRecord(pid) == [pid |-> pid, name |-> "Access Denied", user |-> "N/A"]

\* a handler that lets the exception leave get_process_info
OnExceptionRaise == Raises
\* except Exception: pass, then return None (lines 68-70)
OnException == None

\* the process psutil.Process(conn.pid) names
Owner(conn) == IF conn.pid = NoPid THEN OwnPid ELSE conn.pid

\* the inner try block (lines 56-67) for the entry conn
InspectEntry(procs, conn) ==
    IF procs[Owner(conn)].state \in {"gone", "denied"}
    THEN DegradedRecord(conn.pid)      \* NoSuchProcess, AccessDenied
    ELSE IF procs[Owner(conn)].state = "error"
    THEN OnException                   \* any other exception
    ELSE [ProcessRecord(procs, Owner(conn)) EXCEPT !.pid = conn.pid]

RECURSIVE ScanConnections(_, _, _, _)
\* the loop of get_process_info over psutil.net_connections(), from entry i
ScanConnections(conns, procs, port, i) ==
    IF i > Len(conns) THEN None
    ELSE LET conn == conns[i] IN
         IF conn.laddr = None THEN OnException   \* AttributeError on ().port
         ELSE IF conn.laddr.port = port /\ conn.status = "LISTEN"
              THEN InspectEntry(procs, conn)
              ELSE ScanConnections(conns, procs, port, i + 1)

get_process_info(conns, procs, port) ==
    IF conns = Unreadable THEN OnException
    ELSE ScanConnections(conns, procs, port, 1)

(* ------------------------------- host ---------------------------------- *)
\* pid of the process that listens on a port of the host
OwnerPid(p) == 100 + (p % 10)

\* the host's process table: who listens where, and what the caller may see
HostProcs ==
    [pid \in (100..109) \cup {OwnPid} |->
        [name |-> IF pid = OwnPid THEN "srott" ELSE "svc",
         user |-> IF pid = OwnPid THEN "me" ELSE "root",
         status |-> "running",
         state |-> IF pid = OwnPid \/ pid % 3 = 1 THEN "running"
                   ELSE IF pid % 3 = 0 THEN "denied" ELSE "gone"]]

RECURSIVE SetToSeq(_)
\* the elements of a set of ports in ascending order
SetToSeq(S) ==
    IF S = {} THEN <<>>
    ELSE LET m == CHOOSE x \in S : \A y \in S : x <= y
         IN <<m>> \o SetToSeq(S \ {m})

\* psutil.net_connections() on a host where the ports of L listen
NetConnections(L) ==
    LET ps == SetToSeq(L) IN
    [i \in 1..Len(ps) |->
        [laddr |-> [port |-> ps[i]], status |-> "LISTEN", pid |-> OwnerPid(ps[i])]]

(* ------------------------------ state ---------------------------------- *)
VARIABLES
    path,         \* "cli" (main, interactive refresh) or "web" (run_scan)
    start_port,   \* PortSniffer.start_port
    end_port,     \* PortSniffer.end_port
    timeout,      \* PortSniffer.timeout
    max_workers,  \* PortSniffer.max_workers
    cur,          \* the PortSniffer object in use
    open_ports,   \* sniffer object -> its self.open_ports dict (port -> info)
    closed_ports, \* sniffer object -> its self.closed_ports list
    listening,    \* ports of the host that accept connections
    pc,           \* position of the thread that runs scan_ports
    nextp,        \* next port the submit loop hands to the executor
    queue,        \* the executor's work queue
    running,      \* ports whose check_port is executing
    finished,     \* port -> outcome of its future
    yielded,      \* futures as_completed has yielded
    raising,      \* an exception is propagating out of the with block
    completed,    \* scan_ports' local counter
    total,        \* scan_ports' local total
    results,      \* the results handed to the caller, oldest first
    started,      \* port -> number of check_port calls in this scan
    scans,        \* scan_ports invocations so far
    faults,       \* socket() failures so far
    requested,    \* the ports the caller named with -p (history)
    doneOrder,    \* the futures of this scan in the order they finished
    correlated,   \* ports get_process_info was called for in this scan
    calls,        \* the progress_callback invocations of this scan
    early,        \* futures already finished when as_completed was called
    sockets,      \* ports whose probe socket is open
    signal,       \* what the last interactive command sent with os.kill
    connections,  \* what psutil.net_connections() returned to get_process_info
    processes,    \* the process table psutil.Process reads
    target,       \* the port get_process_info is asked about
    phase,        \* get_process_info: "enumerated", then "done"
    answer,       \* what get_process_info returned
    probe,        \* what check_port returned for the target port
    ptable,       \* the OS process table os.kill acts on: pid -> state
    hist,         \* the ProcessManager calls so far, with their outcome
    scan_status,  \* srott_web's global scan_status
    request,      \* POST /api/scan request -> how it was answered
    thread        \* POST /api/scan request -> state of its run_scan thread

scan == <<path, start_port, end_port, timeout, max_workers, cur, open_ports,
          closed_ports, listening, pc, nextp, queue, running, finished,
          yielded, raising, completed, total, results, started, scans, faults,
          requested, doneOrder, correlated, calls, early, sockets, signal>>
\* the variables of one get_process_info call
corr == <<connections, processes, target, phase, answer, probe>>
\* the variables of the lifecycle actions
life == <<ptable, hist>>
\* the variables of the web interface's scan control
web == <<scan_status, request, thread>>

vars == <<scan, corr, life, web>>

config == <<path, start_port, end_port, timeout, max_workers, requested>>

\* no get_process_info call is followed on its own
CorrIdle ==
    /\ connections = <<>>
    /\ processes = HostProcs
    /\ target = 0
    /\ phase = "off"
    /\ answer = None
    /\ probe = None
\* no lifecycle action is followed
LifeIdle ==
    /\ ptable = [pid \in {} |-> "gone"]
    /\ hist = <<>>
\* no POST /api/scan request is followed
WebIdle ==
    /\ scan_status = [is_scanning |-> FALSE, progress |-> 0, total |-> 0,
                      results |-> None]
    /\ request = <<>>
    /\ thread = <<>>

\* range(self.start_port, self.end_port): the last port is left out
ScanRangeShort(s, e) == s..(e - 1)
\* range(self.start_port, self.end_port + 2): one port too many
ScanRangeLong(s, e) == s..(e + 1)
\* range(self.start_port, self.end_port + 1)
ScanRange(s, e) == s..e

\* ports of the host that can accept a connection at all
Connectable(s, e) == {p \in ScanRange(s, e) : 1 <= p /\ p <= MaxPort}

\* all ports the model ever names
AllPorts == UNION {r[1]..(r[2] + 1) : r \in Ranges}

\* a fresh PortSniffer: open_ports = {} and closed_ports = []
EmptyDict == [p \in {} |-> None]

Init ==
    /\ path \in {"cli", "web"}
    /\ \E arg \in PortArgs :
          /\ arg.kind = "list" => path = "cli"
          /\ start_port = ParsePorts(arg)[1]
          /\ end_port = ParsePorts(arg)[2]
          /\ requested = Requested(arg)
    /\ timeout \in TimeoutChoices
    /\ max_workers \in IF path = "cli" THEN WorkerChoices ELSE {DefaultMaxWorkers}
    /\ cur = 1
    /\ open_ports = [s \in {1} |-> EmptyDict]
    /\ closed_ports = [s \in {1} |-> <<>>]
    /\ listening \in SUBSET Connectable(start_port, end_port)
    /\ pc = "idle"
    /\ nextp = start_port
    /\ queue = <<>>
    /\ running = {}
    /\ finished = EmptyDict
    /\ yielded = {}
    /\ raising = FALSE
    /\ completed = 0
    /\ total = 0
    /\ results = <<>>
    /\ started = [p \in AllPorts |-> 0]
    /\ scans = 0
    /\ faults = 0
    /\ doneOrder = <<>>
    /\ correlated = {}
    /\ calls = <<>>
    /\ early = {}
    /\ sockets = {}
    /\ signal = None
    /\ CorrIdle
    /\ LifeIdle
    /\ WebIdle

(* ------------------------------ futures -------------------------------- *)
\* future.result() of a check_port call that returned (port, is_open, info)
Returned(p, is_open, info) ==
    [exc |-> FALSE, port |-> p, is_open |-> is_open, info |-> info]
\* a future whose check_port call raised
Raised(p) == [exc |-> TRUE, port |-> p, is_open |-> FALSE, info |-> None]

\* the keys of the futures dict built so far
Submitted == {p \in ScanRange(start_port, end_port) : p < nextp}

\* end_port - start_port + 1
Total(s, e) == e - s + 1

\* a pool that starts a thread per work item, whatever max_workers says
WorkerAlwaysFree == TRUE
\* a thread of the pool is free to take the next work item
WorkerFree == Cardinality(running) < max_workers

\* sock.connect_ex(('127.0.0.1', port)) == 0 on the current host
Connects(p) ==
    /\ 0 <= p /\ p <= MaxPort     \* otherwise OverflowError, caught at line 48
    /\ timeout > 0                \* settimeout(0): non-blocking, EINPROGRESS
    /\ p \in listening

\* lines 42-45 for a port whose connection was established; an exception
\* out of get_process_info would be caught at line 48
OpenPortResult(conns, procs, p) ==
    LET process_info == get_process_info(conns, procs, p) IN
    IF process_info = Raises THEN Returned(p, FALSE, None)
    ELSE Returned(p, TRUE, process_info)

\* what check_port returns once the socket exists (lines 38-49)
check_port(p) ==
    IF Connects(p)
    THEN OpenPortResult(NetConnections(listening), HostProcs, p)
    ELSE Returned(p, FALSE, None)

\* sock.close() (line 40) is reached when connect_ex returns; connect_ex
\* raises OverflowError for a port outside 0..65535 and the except clause
\* returns without closing, leaving the socket to the object finalizer
CloseReached(p) == 0 <= p /\ p <= MaxPort

\* get_process_info called for every port, whatever connect_ex returned
CorrelatedByAlways(p) == {p}
\* the ports get_process_info is called for by check_port(p): p itself when
\* result == 0 (line 42)
CorrelatedBy(p) == IF Connects(p) THEN {p} ELSE {}

\* the port taken from the arrival position, as if futures completed in
\* submission order
RecordedPortByArrival(r) == start_port + completed
\* port, is_open, process_info = future.result(): the port recorded at
\* lines 88 and 90 is the one the future returned
RecordedPort(r) == r.port

\* scan_ports was given a progress_callback (run_scan line 73; the CLI
\* calls scan_ports() without one)
HasCallback == path = "web"
\* how an invocation of the callback can end (line 93 is not guarded)
CallbackOutcomes == IF HasCallback THEN {"returns", "raises"} ELSE {"returns"}
\* one invocation progress_callback(completed, total); port is the future
\* whose result was recorded just before (history)
CallbackArgs(c, t, p) == [completed |-> c, total |-> t, port |-> p]

(* ------------------------------ actions -------------------------------- *)
\* the run has room for one more scan of the range
ScanAllowed ==
    /\ scans < MaxScans
    /\ (scans + 1) * Cardinality(ScanRange(start_port, end_port)) <= MaxProbes

\* state of a scan_ports call that has not submitted anything yet
ResetScan ==
    /\ nextp' = start_port
    /\ queue' = <<>>
    /\ running' = {}
    /\ finished' = EmptyDict
    /\ yielded' = {}
    /\ raising' = FALSE
    /\ completed' = 0
    /\ total' = 0
    /\ started' = [p \in AllPorts |-> 0]
    /\ doneOrder' = <<>>
    /\ correlated' = {}
    /\ calls' = <<>>
    /\ early' = {}

\* scan_ports entered: ThreadPoolExecutor(max_workers=self.max_workers)
\* raises ValueError for max_workers <= 0, before anything is submitted
EnterScan ==
    /\ scans' = scans + 1
    /\ pc' = IF max_workers <= 0 THEN "raised" ELSE "submit"
    /\ UNCHANGED <<nextp, queue, running, finished, yielded, raising, completed,
                   total, started, doneOrder, correlated, calls, early>>

\* main's first scan and interactive_mode's 'refresh': scan_ports on the
\* sniffer the CLI already holds
CliScan ==
    /\ path = "cli"
    /\ pc = "idle"
    /\ ScanAllowed
    /\ EnterScan
    /\ signal' = None        \* 'refresh' sends no signal
    /\ UNCHANGED <<config, corr, life, web, sockets, cur, open_ports,
                   closed_ports, listening, results, faults>>

\* run_scan: a new PortSniffer(start_port, end_port, timeout), then scan_ports
WebScan ==
    /\ path = "web"
    /\ pc = "idle"
    /\ ScanAllowed
    /\ cur' = IF scans = 0 THEN cur ELSE cur + 1
    /\ open_ports' = [s \in 1..cur' |-> IF s = cur' THEN EmptyDict ELSE open_ports[s]]
    /\ closed_ports' = [s \in 1..cur' |-> IF s = cur' THEN <<>> ELSE closed_ports[s]]
    /\ EnterScan
    /\ UNCHANGED <<config, corr, life, web, signal, sockets, listening,
                   results, faults>>

\* one iteration of the dict comprehension: executor.submit(self.check_port, port)
Submit ==
    /\ pc = "submit"
    /\ nextp \in ScanRange(start_port, end_port)
    /\ queue' = Append(queue, nextp)
    /\ nextp' = nextp + 1
    /\ UNCHANGED <<config, corr, life, web, signal, sockets, early, doneOrder,
                   correlated, calls, cur, open_ports, closed_ports,
                   listening, pc, running, finished, yielded, raising,
                   completed, total, results, started, scans, faults>>

\* the comprehension is exhausted: completed = 0, total = end - start + 1,
\* and as_completed(futures) takes its snapshot of the finished futures
SubmitDone ==
    /\ pc = "submit"
    /\ nextp \notin ScanRange(start_port, end_port)
    /\ completed' = 0
    /\ total' = Total(start_port, end_port)
    /\ early' = DOMAIN finished
    /\ pc' = "collect"
    /\ UNCHANGED <<config, corr, life, web, signal, sockets, doneOrder,
                   correlated, calls, cur, open_ports, closed_ports,
                   listening, nextp, queue, running, finished, yielded,
                   raising, results, started, scans, faults>>

\* a pool thread takes the oldest work item and enters check_port:
\* socket.socket() and sock.settimeout() run outside the try block
ProbeStart ==
    /\ queue # <<>>
    /\ WorkerFree
    /\ LET p == Head(queue) IN
       /\ queue' = Tail(queue)
       /\ started' = [started EXCEPT ![p] = @ + 1]
       /\ \/ /\ timeout >= 0            \* settimeout accepts the value
             /\ running' = running \cup {p}
             /\ sockets' = sockets \cup {p}
             /\ UNCHANGED <<finished, faults, doneOrder>>
          \/ /\ timeout < 0             \* settimeout raises ValueError
             /\ finished' = (p :> Raised(p)) @@ finished
             /\ doneOrder' = Append(doneOrder, p)
             /\ sockets' = sockets \cup {p}   \* created at line 35, not closed
             /\ UNCHANGED <<running, faults>>
          \/ /\ faults < MaxFaults      \* socket() raises OSError
             /\ faults' = faults + 1
             /\ finished' = (p :> Raised(p)) @@ finished
             /\ doneOrder' = Append(doneOrder, p)
             /\ UNCHANGED <<running, sockets>>
    /\ UNCHANGED <<config, corr, life, web, signal, early, correlated, calls,
                   cur, open_ports, closed_ports, listening, pc, nextp,
                   yielded, raising, completed, total, results, scans>>

\* check_port returns: connect_ex, close, and get_process_info when connected
ProbeFinish ==
    /\ \E p \in running :
        /\ running' = running \ {p}
        /\ finished' = (p :> check_port(p)) @@ finished
        /\ doneOrder' = Append(doneOrder, p)
        /\ correlated' = correlated \cup CorrelatedBy(p)
        /\ \E finalized \in BOOLEAN :
              sockets' = IF CloseReached(p) \/ finalized
                         THEN sockets \ {p} ELSE sockets
    /\ UNCHANGED <<config, corr, life, web, signal, early, calls, cur,
                   open_ports, closed_ports, listening, pc, nextp, queue,
                   yielded, raising, completed, total, results, started,
                   scans, faults>>

\* the futures as_completed may yield next: those that had finished when it
\* was called come first, in the iteration order of a set (any order); the
\* others follow one by one in the order they finish
Yieldable ==
    IF early \ yielded # {} THEN early \ yielded
    ELSE LET late == SelectSeq(doneOrder, LAMBDA q : q \notin yielded) IN
         IF late = <<>> THEN {} ELSE {Head(late)}

\* one iteration of 'for future in as_completed(futures)' (lines 83-95)
Collect ==
    /\ pc = "collect"
    /\ \E p \in Yieldable :
        LET r == finished[p] IN
        /\ yielded' = yielded \cup {p}
        /\ IF r.exc
           THEN /\ raising' = TRUE      \* future.result() re-raises
                /\ pc' = "exit"
                /\ UNCHANGED <<completed, open_ports, closed_ports, calls>>
           ELSE /\ completed' = completed + 1
                /\ IF r.is_open
                   THEN /\ open_ports' = [open_ports EXCEPT
                                ![cur] = (RecordedPort(r) :> r.info) @@ @]
                        /\ UNCHANGED closed_ports
                   ELSE /\ closed_ports' = [closed_ports EXCEPT
                                ![cur] = Append(@, RecordedPort(r))]
                        /\ UNCHANGED open_ports
                \* if progress_callback: progress_callback(completed, total);
                \* run_scan supplies one, the CLI does not
                /\ calls' = IF HasCallback
                            THEN Append(calls,
                                        CallbackArgs(completed', total, r.port))
                            ELSE calls
                \* the callback returns, or raises (socketio.emit failing)
                \* and the exception leaves the loop
                /\ \E cb \in CallbackOutcomes :
                      /\ raising' = (cb = "raises")
                      /\ pc' = IF cb = "raises" THEN "exit" ELSE pc
    /\ UNCHANGED <<config, corr, life, web, signal, sockets, early, doneOrder,
                   correlated, cur, listening, nextp, queue, running,
                   finished, total, results, started, scans, faults>>

\* as_completed is exhausted: every future has been yielded
CollectDone ==
    /\ pc = "collect"
    /\ yielded = Submitted
    /\ pc' = "exit"
    /\ UNCHANGED <<config, corr, life, web, signal, sockets, early, doneOrder,
                   correlated, calls, cur, open_ports, closed_ports,
                   listening, nextp, queue, running, finished, yielded,
                   raising, completed, total, results, started, scans,
                   faults>>

\* the result dict of lines 97-101: 'open' and 'closed' are the sniffer's
\* own dict and list, not copies; seen is the history of what the host
\* looked like during the scan, not a key of the dict
ResultOf(s, t, L) == [sniffer |-> s, total_scanned |-> t, seen |-> L]

\* the with block ends: shutdown(wait=True) lets every queued probe run,
\* then the exception propagates or the result is returned
ExitScan ==
    /\ pc = "exit"
    /\ queue = <<>>
    /\ running = {}
    /\ IF raising
       THEN pc' = "raised" /\ UNCHANGED results
       ELSE /\ pc' = "idle"
            /\ results' = Append(results, ResultOf(cur, total, listening))
    /\ ResetScan              \* the locals of the call are gone
    /\ UNCHANGED <<config, corr, life, web, signal, sockets, cur, open_ports,
                   closed_ports, listening, scans, faults>>

\* between two scans the host changes: services start and stop listening
HostChange ==
    /\ pc = "idle"
    /\ 0 < scans /\ ScanAllowed
    /\ listening' \in SUBSET Connectable(start_port, end_port)
    /\ listening' # listening
    /\ UNCHANGED <<config, corr, life, web, signal, sockets, early, doneOrder,
                   correlated, calls, cur, open_ports, closed_ports, pc,
                   nextp, queue, running, finished, yielded, raising,
                   completed, total, results, started, scans, faults>>

\* ProcessManager.is_system_port
is_system_port(port) == port < 1024
\* what the user may type at "Are you sure? (yes/no): "
Answers == {"yes", "YES", "no"}
\* input(...).strip().lower() on these answers
StripLower(a) == IF a \in {"yes", "YES"} THEN "yes" ELSE a
\* the port numbers the user may type: the scanned ones and one more
TypedPorts == ScanRange(start_port, end_port) \cup {end_port + 1}
\* a confirmation that accepts whatever was typed
ConfirmedAlways(a) == TRUE
\* if confirm != 'yes': continue (lines 215-217)
Confirmed(a) == StripLower(a) = "yes"

\* one 'start', 'pause' or 'kill' command of interactive_mode (lines 208-234)
\* for a port the user types, with the answer given if the confirmation is
\* asked; open is the local open_ports, i.e. results['open'] of the last scan
ManageCommand ==
    /\ path = "cli"
    /\ pc = "idle"
    /\ results # <<>>
    /\ \E command \in {"start", "pause", "kill"}, port \in TypedPorts,
          confirm \in Answers :
        LET open == open_ports[results[Len(results)].sniffer] IN
        signal' =
            IF port \notin DOMAIN open THEN None
            ELSE IF is_system_port(port) /\ ~Confirmed(confirm) THEN None
            ELSE IF open[port] = None \/ "pid" \notin DOMAIN open[port]
            THEN None
            ELSE IF open[port].pid = NoPid THEN None   \* os.kill: TypeError
            ELSE [command |-> command, port |-> port, pid |-> open[port].pid,
                  answer |-> IF is_system_port(port) THEN confirm ELSE ""]
    /\ UNCHANGED <<config, corr, life, web, sockets, cur, open_ports,
                   closed_ports, listening, pc, nextp, queue, running,
                   finished, yielded, raising, completed, total, results,
                   started, scans, faults, doneOrder, correlated, calls, early>>

Next ==
    \/ CliScan
    \/ WebScan
    \/ Submit
    \/ SubmitDone
    \/ ProbeStart
    \/ ProbeFinish
    \/ Collect
    \/ CollectDone
    \/ ExitScan
    \/ HostChange
    \/ ManageCommand

Spec == Init /\ [][Next]_vars

(* ----------------- get_process_info on any connection table ------------ *)
\* every scan variable at rest: a CLI sniffer for port 1 that has not scanned
ScanIdle ==
    /\ path = "cli"
    /\ start_port = 1 /\ end_port = 1 /\ requested = {1}
    /\ timeout = 1 /\ max_workers = 1
    /\ cur = 1
    /\ open_ports = [s \in {1} |-> EmptyDict]
    /\ closed_ports = [s \in {1} |-> <<>>]
    /\ listening = {}
    /\ pc = "idle"
    /\ nextp = start_port
    /\ queue = <<>>
    /\ running = {}
    /\ finished = EmptyDict
    /\ yielded = {}
    /\ raising = FALSE
    /\ completed = 0
    /\ total = 0
    /\ results = <<>>
    /\ started = [p \in AllPorts |-> 0]
    /\ scans = 0
    /\ faults = 0
    /\ doneOrder = <<>>
    /\ correlated = {}
    /\ calls = <<>>
    /\ early = {}
    /\ sockets = {}
    /\ signal = None

\* the ports that occur in the connection tables
CorrPorts == {1, 2}
\* the pids that occur in the connection tables: unknown owner, or 101
ConnPids == {NoPid, 101}
\* one entry of psutil.net_connections(): laddr is () for a socket that is
\* not bound, conn.status is LISTEN or another TCP state
ConnEntries ==
    [laddr : {None} \cup {[port |-> p] : p \in CorrPorts},
     status : {"LISTEN", "ESTABLISHED"},
     pid : ConnPids]
\* the tables psutil.net_connections() may return, and its failure
ConnTables ==
    UNION {[1..n -> ConnEntries] : n \in 0..MaxConns} \cup {Unreadable}
\* what psutil.Process(101) meets: a process it can read, one it is denied,
\* one whose inspection fails with another exception
ProcStates == {"running", "denied", "error"}
\* the process tables at the time the connections are enumerated
ProcTables ==
    {[pid \in {101, OwnPid} |->
        [name |-> IF pid = OwnPid THEN "srott" ELSE "svc",
         user |-> IF pid = OwnPid THEN "me" ELSE "root",
         status |-> "running",
         state |-> IF pid = OwnPid THEN "running" ELSE st]] : st \in ProcStates}

\* psutil.net_connections() has returned (or failed) inside a check_port
\* call whose connect_ex returned 0
CorrInit ==
    /\ ScanIdle
    /\ LifeIdle
    /\ WebIdle
    /\ connections \in ConnTables
    /\ processes \in ProcTables
    /\ target \in CorrPorts
    /\ phase = "enumerated"
    /\ answer = None
    /\ probe = None

\* a process other than the caller terminates after the connection table
\* was read and before psutil.Process inspects it
ProcessExits ==
    /\ phase = "enumerated"
    /\ \E pid \in (DOMAIN processes) \ {OwnPid} :
          /\ processes[pid].state # "gone"
          /\ processes' = [processes EXCEPT ![pid].state = "gone"]
    /\ UNCHANGED <<scan, life, web, connections, target, phase, answer, probe>>

\* get_process_info(target) runs to its return, and check_port with it
Correlate ==
    /\ phase = "enumerated"
    /\ answer' = get_process_info(connections, processes, target)
    /\ probe' = OpenPortResult(connections, processes, target)
    /\ phase' = "done"
    /\ UNCHANGED <<scan, life, web, connections, processes, target>>

CorrNext ==
    \/ ProcessExits
    \/ Correlate

CorrSpec == CorrInit /\ [][CorrNext]_vars

\* entry c is a listening socket on the port
Listens(c, port) == c.laddr # None /\ c.laddr.port = port /\ c.status = "LISTEN"
\* the table holds a listening entry for the target port
HasEntry ==
    /\ connections # Unreadable
    /\ \E i \in 1..Len(connections) : Listens(connections[i], target)
\* the index of the first such entry
FirstIndex ==
    CHOOSE i \in 1..Len(connections) :
        /\ Listens(connections[i], target)
        /\ \A j \in 1..(i - 1) : ~Listens(connections[j], target)
FirstEntry == connections[FirstIndex]
\* the loop reached the first listening entry and inspected its owner
Inspected ==
    /\ HasEntry
    /\ \A j \in 1..(FirstIndex - 1) : connections[j].laddr # None

(* --------------------- ProcessManager and os.kill ----------------------- *)
\* a process of another user (init): the caller may not signal it
InitPid == 1
\* a process of the caller's own user
UserPid == 201
\* the processes of the host, the caller (OwnPid) among them
LifePids == {InitPid, UserPid, OwnPid}
\* the pid values handed to the three actions: None (an open port whose
\* conn.pid is None), 0 (accepted by the route /api/process/<int:pid>), and
\* the pids of the host
PidArgs == {NoPid, 0} \cup LifePids

\* the caller's uid may signal the process
Permitted(pid) == pid # InitPid

\* the signal each action passes to os.kill
SignalOf(op, force) ==
    IF op = "start" THEN "SIGCONT"
    ELSE IF op = "pause" THEN "SIGSTOP"
    ELSE IF force THEN "SIGKILL" ELSE "SIGTERM"

\* the processes os.kill(pid, sig) addresses: pid 0 is every process of the
\* caller's process group, here the caller itself
Targets(pid) == IF pid = 0 THEN {OwnPid} ELSE {pid}

\* the processes among them that are in the process table (a terminated
\* process stays there as a zombie until its parent has waited for it)
Present(pid) == {q \in Targets(pid) \cap DOMAIN ptable : ptable[q] # "gone"}

\* how os.kill(pid, sig) ends: TypeError for None, ProcessLookupError,
\* PermissionError, or success
KillOutcome(pid) ==
    IF pid = NoPid THEN "TypeError"
    ELSE IF Present(pid) = {} THEN "ESRCH"
    ELSE IF \A q \in Present(pid) : ~Permitted(q) THEN "EPERM"
    ELSE "ok"

\* the state of a process after the signal is delivered; caught says that
\* the process handles or ignores SIGTERM
Deliver(state, sig, caught) ==
    IF state = "zombie" THEN state
    ELSE IF sig = "SIGKILL" THEN "zombie"
    ELSE IF sig = "SIGSTOP" THEN "stopped"
    ELSE IF sig = "SIGCONT" THEN "running"
    ELSE IF state = "running" /\ ~caught THEN "zombie"
    ELSE state       \* SIGTERM caught, or pending on a stopped process

\* except Exception as e: return False, ... (lines 115, 124, 136)
OnKillError == "fail"

\* the processes of the host when the first action is called
LifeInit ==
    /\ ScanIdle
    /\ CorrIdle
    /\ WebIdle
    /\ \E st \in {"running", "stopped", "gone"} :
          ptable = [pid \in LifePids |-> IF pid = UserPid THEN st ELSE "running"]
    /\ hist = <<>>

\* one call of start_process(pid), pause_process(pid) or kill_process(pid,
\* force) with the os.kill inside it; out is "ok" for (True, msg), "fail"
\* for (False, msg), and "none" when the signal ended the caller itself
LifeCall(op, pid, force) ==
    /\ ptable[OwnPid] = "running"
    /\ Len(hist) < MaxCalls
    /\ op = "kill" \/ ~force
    /\ \E caught \in BOOLEAN :
        LET sig == SignalOf(op, force)
            res == KillOutcome(pid)
            after == IF res # "ok" THEN ptable
                     ELSE [q \in DOMAIN ptable |->
                             IF q \in Present(pid) /\ Permitted(q)
                             THEN Deliver(ptable[q], sig, caught)
                             ELSE ptable[q]]
            out == IF res # "ok" THEN OnKillError
                   ELSE IF after[OwnPid] = "zombie" THEN "none"
                   ELSE "ok"
        IN /\ ptable' = after
           /\ hist' = Append(hist,
                  [op |-> op, pid |-> pid, force |-> force,
                   before |-> IF pid \in DOMAIN ptable THEN ptable[pid] ELSE "gone",
                   out |-> out])
    /\ UNCHANGED <<scan, corr, web>>

start_process == \E pid \in PidArgs : LifeCall("start", pid, FALSE)
pause_process == \E pid \in PidArgs : LifeCall("pause", pid, FALSE)
kill_process == \E pid \in PidArgs, force \in BOOLEAN : LifeCall("kill", pid, force)

\* the parent of a terminated process waits for it: its pid is free again
Reap ==
    /\ \E pid \in DOMAIN ptable :
          /\ ptable[pid] = "zombie"
          /\ ptable' = [ptable EXCEPT ![pid] = "gone"]
    /\ UNCHANGED <<scan, corr, web, hist>>

\* somebody else continues the caller after it stopped itself
Resume ==
    /\ ptable[OwnPid] = "stopped"
    /\ ptable' = [ptable EXCEPT ![OwnPid] = "running"]
    /\ UNCHANGED <<scan, corr, web, hist>>

LifeNext ==
    \/ start_process
    \/ pause_process
    \/ kill_process
    \/ Reap
    \/ Resume

LifeSpec == LifeInit /\ [][LifeNext]_vars

(* ------------------- start_scan and run_scan (web) ---------------------- *)
\* total of the scans the requests ask for: a range of one port
WebTotal == Total(1, 1)

\* the server is up: no request has arrived, no thread exists
WebInit ==
    /\ ScanIdle
    /\ CorrIdle
    /\ LifeIdle
    /\ scan_status = [is_scanning |-> FALSE, progress |-> 0, total |-> 0,
                      results |-> None]
    /\ request = [r \in 1..MaxRequests |-> "pending"]
    /\ thread = [r \in 1..MaxRequests |-> [pc |-> "none", completed |-> 0]]

\* start_scan (lines 33-54) for the next request: 400 'Scan already in
\* progress' when the flag is set, otherwise a thread for run_scan is started
start_scan(r) ==
    /\ request[r] = "pending"
    /\ \A q \in 1..(r - 1) : request[q] # "pending"
    /\ IF scan_status.is_scanning
       THEN /\ request' = [request EXCEPT ![r] = "rejected"]
            /\ UNCHANGED thread
       ELSE /\ request' = [request EXCEPT ![r] = "started"]
            /\ thread' = [thread EXCEPT ![r].pc = "spawned"]
    /\ UNCHANGED <<scan, corr, life, scan_status>>

\* run_scan lines 60-62: the thread sets the flag, progress and total
RunScanEnter(r) ==
    /\ thread[r].pc = "spawned"
    /\ scan_status' = [scan_status EXCEPT !.is_scanning = TRUE,
                                          !.progress = 0,
                                          !.total = WebTotal]
    /\ thread' = [thread EXCEPT ![r].pc = "scanning"]
    /\ UNCHANGED <<scan, corr, life, request>>

\* progress_callback (lines 64-70), called by scan_ports for one more port
ScanProgress(r) ==
    /\ thread[r].pc = "scanning"
    /\ thread[r].completed < WebTotal
    /\ thread' = [thread EXCEPT ![r].completed = @ + 1]
    /\ scan_status' = [scan_status EXCEPT !.progress = thread[r].completed + 1]
    /\ UNCHANGED <<scan, corr, life, request>>

\* sniffer.scan_ports(progress_callback) returns (line 73)
ScanReturns(r) ==
    /\ thread[r].pc = "scanning"
    /\ thread[r].completed = WebTotal
    /\ thread' = [thread EXCEPT ![r].pc = "returned"]
    /\ UNCHANGED <<scan, corr, life, request, scan_status>>

\* scan_ports raises (a probe whose socket() failed, a callback whose emit
\* failed): nothing in run_scan catches it and the thread ends
ScanRaises(r) ==
    /\ thread[r].pc = "scanning"
    /\ thread' = [thread EXCEPT ![r].pc = "failed"]
    /\ UNCHANGED <<scan, corr, life, request, scan_status>>

\* lines 76-107: the results are processed and stored
StoreResults(r) ==
    /\ thread[r].pc = "returned"
    /\ scan_status' = [scan_status EXCEPT !.results = r]
    /\ thread' = [thread EXCEPT ![r].pc = "stored"]
    /\ UNCHANGED <<scan, corr, life, request>>

\* line 108: scan_status['is_scanning'] = False
ClearFlag(r) ==
    /\ thread[r].pc = "stored"
    /\ scan_status' = [scan_status EXCEPT !.is_scanning = FALSE]
    /\ thread' = [thread EXCEPT ![r].pc = "done"]
    /\ UNCHANGED <<scan, corr, life, request>>

WebNext ==
    \E r \in 1..MaxRequests :
        \/ start_scan(r)
        \/ RunScanEnter(r)
        \/ ScanProgress(r)
        \/ ScanReturns(r)
        \/ ScanRaises(r)
        \/ StoreResults(r)
        \/ ClearFlag(r)

WebSpec == WebInit /\ [][WebNext]_vars

\* a scan has been started for the request and has not finished
Active(r) == thread[r].pc \in {"spawned", "scanning", "returned", "stored"}
\* the thread of the request has ended, by returning or by an exception
Ended(r) == thread[r].pc \in {"done", "failed"}

(* ------------------------------ results -------------------------------- *)
\* what the caller reads in the k-th result it was handed: 'open' and
\* 'closed' are looked up in the sniffer object the dict refers to
View(k) ==
    [open |-> open_ports[results[k].sniffer],
     closed |-> closed_ports[results[k].sniffer],
     total_scanned |-> results[k].total_scanned]

\* scan_ports has just returned and nothing has run since
JustReturned == pc = "idle" /\ results # <<>>
Last == Len(results)

\* every probe of the call is over and the with block can be left
ScanOver == pc = "exit" /\ queue = <<>> /\ running = {}

Valid == ValidRange(start_port, end_port) /\ ValidConfig(timeout, max_workers)

(* ------------------------------- claims -------------------------------- *)
\* C1: every result returned for a valid range and configuration, by a
\* first scan or by a rescan, has total_scanned = |open| + |closed|, no port in both 'open' and
\* 'closed', and no port twice in 'closed'.
C1_CountsAddUp ==
    (JustReturned /\ Valid) =>
        LET r == View(Last) IN
        /\ r.total_scanned = Cardinality(DOMAIN r.open) + Len(r.closed)
        /\ (DOMAIN r.open) \cap Elems(r.closed) = {}
        /\ Cardinality(Elems(r.closed)) = Len(r.closed)

\* C2: in a scan of a valid range check_port is started exactly once for
\* every port of the range and for no other port, under every interleaving,
\* and the returned total_scanned is end_port - start_port + 1.
C2_EveryPortProbedOnce ==
    ValidRange(start_port, end_port) =>
        /\ \A p \in AllPorts :
              /\ started[p] <= 1
              /\ (p < start_port \/ p > end_port) => started[p] = 0
        /\ ScanOver => \A p \in start_port..end_port : started[p] = 1
        /\ \A k \in 1..Len(results) :
              results[k].total_scanned = end_port - start_port + 1

\* C2 witness: a scan of a full-length valid range is over, after an earlier
\* scan has returned its result
C2_Witness ==
    /\ ValidRange(start_port, end_port)
    /\ end_port - start_port + 1 = MaxLen
    /\ ScanOver /\ ~raising
    /\ \A p \in start_port..end_port : started[p] = 1
    /\ Len(results) = 1

\* C3: no result holds a port outside [start_port, end_port], neither as a
\* key of 'open' nor as an element of 'closed'.
C3_NoPortOutsideRange ==
    \A k \in 1..Len(results) :
        /\ \A p \in DOMAIN View(k).open : start_port <= p /\ p <= end_port
        /\ \A p \in Elems(View(k).closed) : start_port <= p /\ p <= end_port

\* C3 witness: a returned result with an open and a closed port
C3_Witness ==
    /\ JustReturned
    /\ DOMAIN View(Last).open # {}
    /\ View(Last).closed # <<>>

\* C4: the number of check_port executions in flight never exceeds
\* max_workers; a queued port is started only when a pool thread is free.
C4_InFlightBounded == Cardinality(running) <= max_workers

\* C4 witness: every pool thread is busy while a port waits in the queue
C4_Witness ==
    /\ max_workers >= 1
    /\ Cardinality(running) = max_workers
    /\ queue # <<>>

\* C5: a range that violates 1 <= start <= end <= 65535 is rejected before
\* any port is probed: no probe is started and no result is returned.
C5_InvalidRangeRejected ==
    ~ValidRange(start_port, end_port) =>
        /\ \A p \in AllPorts : started[p] = 0
        /\ results = <<>>

\* C6: a scan configured with max_workers <= 0 or timeout <= 0 is rejected
\* before any probe is started and returns no result.
C6_InvalidConfigRejected ==
    ~ValidConfig(timeout, max_workers) =>
        /\ \A p \in AllPorts : started[p] = 0
        /\ results = <<>>

\* C7: a failure of one port's probe (socket creation included) makes that
\* port closed and is never propagated: no future ends with an exception and
\* scan_ports does not raise.
C7_ProbeFailureIsClosed ==
    Valid =>
        /\ \A p \in DOMAIN finished : ~finished[p].exc
        /\ ~raising
        /\ pc # "raised"

\* C8: a scan started on a valid range with a valid configuration ends by
\* returning a result in which every port of the range is classified.
C8_ScanEndsWithFullResult ==
    (Valid /\ ScanOver) =>
        /\ ~raising
        /\ \A p \in start_port..end_port :
              p \in DOMAIN open_ports[cur] \/ p \in Elems(closed_ports[cur])

\* C9: the result of a scan depends only on the port states observed during
\* that scan: its 'open' keys are the ports of the range that listened during
\* it, its 'closed' elements the ports that did not.
C9_NoStateBetweenScans ==
    (JustReturned /\ Valid) =>
        LET r == View(Last)
            seen == results[Last].seen \cap (start_port..end_port) IN
        /\ DOMAIN r.open = seen
        /\ Elems(r.closed) = (start_port..end_port) \ seen

\* C10: no step of a validly configured run changes the 'open' map, the
\* 'closed' list or total_scanned of a result that was already handed to the
\* caller.
C10_ResultImmutable ==
    [][Valid => \A k \in 1..Len(results) : View(k)' = View(k)]_vars

\* the host looked the same during every scan that returned a result
FixedHost == \A k \in 1..Len(results) : results[k].seen = results[Last].seen

\* C11: when the host is the same during every scan of a valid run, the key
\* set of 'open', the element set of 'closed' and the information attached
\* to each open port are a function of the host alone, whatever order the
\* probes started, finished and were collected in.
C11_ContentDeterministic ==
    (JustReturned /\ Valid /\ FixedHost) =>
        LET r == View(Last)
            up == results[Last].seen \cap (start_port..end_port) IN
        /\ DOMAIN r.open = up
        /\ Elems(r.closed) = (start_port..end_port) \ up
        /\ \A p \in up :
              r.open[p] = get_process_info(NetConnections(results[Last].seen),
                                           HostProcs, p)

\* C11 witness: a rescan of an unchanged host has returned open and closed
\* ports, and the closed ports did not arrive in submission order
C11_Witness ==
    /\ JustReturned /\ Valid /\ FixedHost
    /\ Len(results) = 2
    /\ DOMAIN View(Last).open # {}
    /\ \E i, j \in 1..Len(View(Last).closed) :
          i < j /\ View(Last).closed[i] > View(Last).closed[j]

\* the position of a future in the order of completion
Pos(seq, x) == CHOOSE i \in 1..Len(seq) : seq[i] = x

\* C12: with a progress callback and a valid configuration, the i-th
\* invocation carries (i, end_port - start_port + 1), the invocations follow
\* the futures in the order they finished, and when the scan is over there
\* has been one invocation per probe, the last one with completed = total.
C12_ProgressCallback ==
    (Valid /\ HasCallback) =>
        /\ \A i \in 1..Len(calls) :
              /\ calls[i].completed = i
              /\ calls[i].total = end_port - start_port + 1
        /\ \A i, j \in 1..Len(calls) :
              i < j => Pos(doneOrder, calls[i].port) < Pos(doneOrder, calls[j].port)
        /\ ScanOver => Len(calls) = end_port - start_port + 1

\* every process of the table can be inspected, or fails in one of the two
\* ways get_process_info answers with a record
Inspectable == \A pid \in DOMAIN processes : processes[pid].state # "error"

\* C13: get_process_info returns the information of the first entry whose
\* local port is the target and whose state is LISTEN, whatever precedes that
\* entry in the table, and returns None exactly when there is no such entry
\* (for process tables whose inspection ends in a record).
C13_FirstListeningEntry ==
    (phase = "done" /\ Inspectable) =>
        /\ HasEntry => answer = InspectEntry(processes, FirstEntry)
        /\ (answer = None) <=> ~HasEntry

\* C14: when the owner of the listening entry exists but may not be
\* inspected, the result is a record with the entry's pid and
\* status = access_denied.
C14_AccessDeniedRecord ==
    (phase = "done" /\ Inspected /\ processes[Owner(FirstEntry)].state = "denied") =>
        /\ answer # None
        /\ answer.pid = FirstEntry.pid
        /\ "status" \in DOMAIN answer
        /\ answer.status = "access_denied"

\* C15: when the owner has terminated since the table was read, the result
\* is None or a record marked stale, and it differs from what the same call
\* returns when the owner exists and access is denied.
C15_FailureModesDistinguished ==
    (phase = "done" /\ Inspected /\ processes[Owner(FirstEntry)].state = "gone") =>
        /\ \/ answer = None
           \/ "status" \in DOMAIN answer /\ answer.status = "stale"
        /\ answer # get_process_info(connections,
                [processes EXCEPT ![Owner(FirstEntry)].state = "denied"], target)

\* C16: whatever the table read and the inspection do, get_process_info
\* returns None or a record, never an exception, and check_port returns the
\* port as open with that answer as its process information.
C16_CorrelationNeverRaises ==
    phase = "done" =>
        /\ answer # Raises
        /\ answer = None \/ "pid" \in DOMAIN answer
        /\ probe = Returned(target, TRUE, answer)

\* C16 witness: the table read failed, or an entry without local address
\* or an uninspectable owner was met, and the port is reported open
C16_Witness ==
    /\ phase = "done"
    /\ connections = Unreadable \/ (HasEntry /\ answer = None)
    /\ probe.is_open

\* C17: every call of start_process, pause_process and kill_process returns
\* a pair and does not raise, whatever pid it is given, and the pair is
\* (False, reason) when no process has that pid or the caller may not
\* signal it.
C17_ActionsReturnPair ==
    \A i \in 1..Len(hist) :
        /\ hist[i].out \in {"ok", "fail"}
        /\ (hist[i].pid \notin LifePids
               \/ hist[i].before = "gone"
               \/ ~Permitted(hist[i].pid)) => hist[i].out = "fail"

\* C18: a kill_process(pid, True) that follows a successful
\* kill_process(pid, True), at a time when the process has terminated,
\* returns (False, reason).
C18_SecondKillFails ==
    \A i, j \in 1..Len(hist) :
        (/\ i < j
         /\ hist[i].op = "kill" /\ hist[i].force /\ hist[i].out = "ok"
         /\ hist[j].op = "kill" /\ hist[j].force /\ hist[j].pid = hist[i].pid
         /\ hist[j].before \in {"zombie", "gone"})
            => hist[j].out = "fail"

\* -p named a list that leaves out ports between its smallest and largest
ListWithGaps == requested # ScanRange(start_port, end_port)

\* C19: when the ports are given as a list, check_port is started for the
\* listed ports only, and total_scanned is the number of listed ports.
C19_ListProbesListedPorts ==
    (path = "cli" /\ ListWithGaps /\ ValidRange(start_port, end_port)) =>
        /\ \A p \in AllPorts : started[p] > 0 => p \in requested
        /\ \A k \in 1..Len(results) :
              results[k].total_scanned = Cardinality(requested)

\* C20: within a scan, a future that reports its port open belongs to a
\* port whose get_process_info call has returned, get_process_info has been
\* called only for ports whose connection was established, a future that
\* reports its port closed carries no process information, and a port is
\* recorded only after its future has finished.
C20_ProbeCorrelateRecord ==
    /\ \A p \in correlated : Connects(p)
    /\ \A p \in DOMAIN finished :
          ~finished[p].exc =>
              /\ finished[p].is_open <=> p \in correlated
              /\ ~finished[p].is_open => finished[p].info = None
    /\ yielded \subseteq DOMAIN finished
    /\ \A p \in yielded :
          finished[p].is_open =>
              /\ p \in correlated
              /\ p \in DOMAIN open_ports[cur]
              /\ open_ports[cur][p] = finished[p].info

\* C20 witness: the loop has recorded an open port with its process
\* information and a closed port, while another probe is still running
C20_Witness ==
    /\ pc = "collect"
    /\ running # {}
    /\ \E p, q \in yielded :
          /\ finished[p].is_open /\ finished[p].info # None
          /\ ~finished[q].is_open /\ ~finished[q].exc

\* C21: with a valid timeout and worker count, a probe socket is open only
\* while its check_port call is running: it is closed when the call has
\* returned, on every path, and no socket is open once the scan is over.
C21_SocketsClosed ==
    ValidConfig(timeout, max_workers) => \A p \in sockets : p \in running

\* the answer is a record with all the attributes of lines 58-65
FullRecord(a) == a # None /\ "status" \in DOMAIN a

\* C22: a full record carries the pid of the first listening entry and the
\* name, user and status of the process with that pid; when that entry has
\* no pid, the answer is None or a degraded record.
C22_RecordOfOwner ==
    (phase = "done" /\ Inspected) =>
        /\ FullRecord(answer) =>
              /\ answer.pid = FirstEntry.pid
              /\ FirstEntry.pid \in DOMAIN processes
              /\ answer.name = processes[FirstEntry.pid].name
              /\ answer.user = processes[FirstEntry.pid].user
              /\ answer.status = processes[FirstEntry.pid].status
        /\ FirstEntry.pid = NoPid => ~FullRecord(answer)

\* C23: a scan with a progress callback whose probes all returned ends
\* without an exception and with the classification a scan without callback
\* gives: the listening ports of the range in 'open', the others in
\* 'closed', whatever the callback did.
C23_CallbackIsObserver ==
    (Valid /\ HasCallback /\ ScanOver
           /\ \A p \in DOMAIN finished : ~finished[p].exc) =>
        /\ ~raising
        /\ DOMAIN open_ports[cur] = listening \cap (start_port..end_port)
        /\ Elems(closed_ports[cur]) = (start_port..end_port) \ listening

\* the open map of the most recent scan has the signalled port as a key,
\* with process information whose pid is the one signalled
SignalFromLastScan ==
    /\ path = "cli" /\ results # <<>>
    /\ signal.port \in DOMAIN View(Last).open
    /\ View(Last).open[signal.port] # None
    /\ "pid" \in DOMAIN View(Last).open[signal.port]
    /\ signal.pid = View(Last).open[signal.port].pid

\* C26 as stated: a signal goes only to the pid recorded for a key of the
\* most recent scan's 'open' map, and for a port below 1024 only when the
\* user typed exactly yes.
C26_SignalOnlyConfirmedExactly ==
    signal # None =>
        /\ SignalFromLastScan
        /\ is_system_port(signal.port) => signal.answer = "yes"

\* C26 amended: a signal goes only to the pid recorded for a key of the
\* most recent scan's 'open' map, and for a port below 1024 only when the
\* answer, stripped of surrounding blanks and lower-cased, is yes.
C26_SignalOnlyConfirmed ==
    signal # None =>
        /\ SignalFromLastScan
        /\ is_system_port(signal.port) => StripLower(signal.answer) = "yes"

\* C26 witness: after a refresh, a confirmed signal for a system port
C26_Witness ==
    /\ signal # None
    /\ Len(results) = 2
    /\ is_system_port(signal.port)
    /\ signal.answer = "yes"

\* C24: at most one scan is started and not finished at any time: a
\* request that arrives during a scan is rejected, and no two run_scan
\* threads are active together.
C24_OneScanAtATime ==
    Cardinality({r \in DOMAIN thread : Active(r)}) <= 1

\* C25: once every scan thread that was started has ended, by returning or
\* by an exception, is_scanning is False again, and a scan that has ended
\* by returning has left results in scan_status.
C25_FlagCleared ==
    ((\E r \in DOMAIN thread : Ended(r))
        /\ \A r \in DOMAIN thread : ~Active(r)) =>
        /\ ~scan_status.is_scanning
        /\ (\E r \in DOMAIN thread : thread[r].pc = "done")
              => scan_status.results # None

====
